---- MODULE Spec2Model ----
(***************************************************************************)
(* A model of playmetrics_export.py: one run of main(), i.e. the password  *)
(* check, get_valid_auth (load, refresh or full sign-in with provider MFA, *)
(* probe of the cached access key, backend login with backend 2FA, save)   *)
(* and fetch_data with its ordered candidate endpoints.                    *)
(*                                                                         *)
(* Every HTTP call is answered by the environment with one response of a   *)
(* small set of response shapes; a timeout or connection failure is the    *)
(* response with exc = TRUE (requests raises).  Values are strings; a      *)
(* dictionary is a record over Fields whose absent keys hold Missing.      *)
(***************************************************************************)
EXTENDS Integers, Sequences, FiniteSets, TLC

VARIABLES
    password,   \* CREDENTIALS["password"]
    requested,  \* the set `requested` of main()
    pc,         \* position of the run
    error,      \* the exception that ended the run, "none" otherwise
    store,      \* content of AUTH_FILE
    auth,       \* the local `auth` of get_valid_auth / main
    chal,       \* the pending MFA challenge (provider or backend)
    data,       \* the dict `data` of fetch_data
    cand,       \* index of the next candidate endpoint of the current loop
    last,       \* history: the last API call with its arguments
    store0,     \* history: content of AUTH_FILE when the run started
    saves,      \* history: number of save_auth calls of the run
    ncalls,     \* history: number of calls per API function
    attempts,   \* history: the endpoints api_get was called with, in order
    refreshed,  \* history: refresh token returned by a successful refresh
    issued,     \* history: access keys the backend issued in this run
    probed,     \* history: access keys that passed a test_api probe
    twin,       \* history: the same responses fed to a run with no AUTH_FILE
    answer,     \* history: the response the sign-in or the backend login works on
    validated,  \* history: remember token returned by a successful validation
    runs,       \* history: number of runs started on this AUTH_FILE
    inherited   \* history: `validated` of the previous run

vars == <<password, requested, pc, error, store, auth, chal, data, cand, last,
          store0, saves, ncalls, attempts, refreshed, issued, probed, twin,
          answer, validated, runs, inherited>>

-----------------------------------------------------------------------------
(* Python values *)

Missing == "MISSING"   \* the key is not in the dictionary
Null    == "NULL"      \* None / JSON null

Truthy(v) == v \notin {Missing, Null, ""}

\* dict.get(k): None when the key is absent
Get(d, k) == IF d[k] = Missing THEN Null ELSE d[k]

\* dict.get(k, ""): the default when the key is absent
GetOr(d, k, default) == IF d[k] = Missing THEN default ELSE d[k]

Fields == {"firebase_token", "refresh_token", "pm_access_key", "verified2fa",
           "captured_at"}

\* a Python value as load_auth can return it: None, a dict, or another JSON
\* value ("falsy": 0, false, "", []; "truthy": a number, true, a string, [1])
Value(tag, ft, rt, key, v2, at) ==
    [tag |-> tag, firebase_token |-> ft, refresh_token |-> rt,
     pm_access_key |-> key, verified2fa |-> v2, captured_at |-> at]

PyNone == Value("None", Missing, Missing, Missing, Missing, Missing)
Dict(ft, rt, key, v2, at) == Value("dict", ft, rt, key, v2, at)
Other(tag) == Value(tag, Missing, Missing, Missing, Missing, Missing)

\* bool(v) of Python
IsTrue(v) ==
    \/ v.tag = "truthy"
    \/ v.tag = "dict" /\ \E k \in Fields : v[k] # Missing

-----------------------------------------------------------------------------
(* AUTH_FILE and its JSON text *)

NoMembers == [k \in {} |-> Missing]

\* a serialisation that leaves captured_at out
json_dumps_lossy(v) ==
    IF v.tag = "dict"
    THEN [type |-> "object",
          members |-> [k \in {f \in Fields \ {"captured_at"} : v[f] # Missing}
                         |-> v[k]]]
    ELSE [type |-> v.tag, members |-> NoMembers]

\* json.dumps(v): the members of an object are exactly the keys of the dict
json_dumps(v) ==
    IF v.tag = "dict"
    THEN [type |-> "object",
          members |-> [k \in {f \in Fields : v[f] # Missing} |-> v[k]]]
    ELSE [type |-> v.tag, members |-> NoMembers]

\* json.loads(text)
json_loads(text) ==
    IF text.type = "object"
    THEN [k \in Fields \cup {"tag"} |->
            IF k = "tag" THEN "dict"
            ELSE IF k \in DOMAIN text.members THEN text.members[k]
            ELSE Missing]
    ELSE Other(text.type)

\* a file: absent, unreadable (OSError on read), undecodable bytes, text
\* that is no JSON (empty, truncated, garbage), or JSON text
File(kind) == [kind |-> kind, type |-> "none", members |-> NoMembers]
JsonFile(text) == [kind |-> "json", type |-> text.type, members |-> text.members]

NotJsonKinds == {"empty", "truncated", "garbage"}

Ret(v) == [exc |-> "none", value |-> v]
Exc(e) == [exc |-> e, value |-> PyNone]

load_auth(st) ==
    IF st.kind = "absent" THEN Ret(PyNone)
    ELSE IF st.kind = "unreadable" THEN Ret(PyNone)
    ELSE IF st.kind = "undecodable" THEN Exc("UnicodeDecodeError")
    ELSE IF st.kind \in NotJsonKinds THEN Ret(PyNone)
    ELSE Ret(json_loads(st))

-----------------------------------------------------------------------------
(* The run as a record, so that the same code can be applied to the run    *)
(* and to the reference run `twin`.                                        *)

NoChal == [pending |-> Missing, enrollment |-> Missing, session |-> Missing,
           code |-> Missing]

Cur == [pc |-> pc, error |-> error, store |-> store, auth |-> auth,
        chal |-> chal, last |-> last]

Fresh(st) == [pc |-> "load", error |-> "none", store |-> st, auth |-> PyNone,
              chal |-> NoChal, last |-> <<>>]

TwinOff == [Fresh(File("absent")) EXCEPT !.pc = "off"]

Raise(r, e) == [r EXCEPT !.pc = "crashed", !.error = e]

\* no response is being worked on
NoAnswer == [of |-> "none", body |-> <<>>]

\* the response a function works on
Answer(name, resp) == [of |-> name, body |-> resp]

\* `return None` of get_valid_auth, then main prints and returns
Fail(r) == [r EXCEPT !.pc = "auth_failed", !.auth = PyNone]

\* a step 2 that never tests the cached key
Step2_no_probe(a) == "pm_login"

\* line 246: test the cached access key, or go to the backend login
Step2(a) == IF Truthy(Get(a, "pm_access_key")) THEN "probe" ELSE "pm_login"

-----------------------------------------------------------------------------
(* Identity provider: responses and the code that reads them *)

\* requests raises (timeout, connection failure); nothing handles it
NetworkError == "RequestException"

\* firebase_refresh_token: the HTTP responses, and what the function returns
RefreshResponses ==
    { [exc |-> TRUE,  status |-> 0,   id_token |-> Missing, refresh_token |-> Missing],
      [exc |-> FALSE, status |-> 200, id_token |-> "id1",   refresh_token |-> "rt1"],
      [exc |-> FALSE, status |-> 200, id_token |-> Missing, refresh_token |-> Missing],
      [exc |-> FALSE, status |-> 400, id_token |-> Missing, refresh_token |-> Missing] }

firebase_refresh_token(resp) ==
    IF resp.exc THEN [exc |-> NetworkError, id_token |-> Null, refresh_token |-> Null]
    ELSE IF resp.status = 200
    THEN [exc |-> "none", id_token |-> Get(resp, "id_token"),
          refresh_token |-> Get(resp, "refresh_token")]
    ELSE [exc |-> "none", id_token |-> Null, refresh_token |-> Null]

\* one entry of error.errors, or the response itself, as _handle_firebase_mfa
\* reads it: the pending credential and the enrollment ids of mfaInfo
Detail(pending, info) == [mfaPendingCredential |-> pending, mfaInfo |-> info]

\* a sign-in response: message is the class of error.message ("MFA": the
\* text contains MFA or SECOND_FACTOR), Missing when there is no error
SignIn(exc, id, rt, pending, info, message, errors) ==
    [exc |-> exc, idToken |-> id, refreshToken |-> rt,
     mfaPendingCredential |-> pending, mfaInfo |-> info,
     message |-> message, errors |-> errors]

SignInResponses ==
    { SignIn(TRUE,  Missing, Missing, Missing, <<>>, Missing, <<>>),
      SignIn(FALSE, "id2", "rt2", Missing, <<>>, Missing, <<>>),
      SignIn(FALSE, Missing, Missing, "cred", <<"e1", "e2">>, Missing, <<>>),
      SignIn(FALSE, Missing, Missing, "cred", <<>>, Missing, <<>>),
      SignIn(FALSE, Missing, Missing, Missing, <<>>, "MFA",
             <<Detail(Missing, <<>>), Detail("cred", <<"e1">>)>>),
      SignIn(FALSE, Missing, Missing, Missing, <<>>, "MFA",
             <<Detail("cred", <<>>)>>),
      SignIn(FALSE, Missing, Missing, Missing, <<>>, "MFA", <<>>),
      SignIn(FALSE, Missing, Missing, Missing, <<>>, "OTHER",
             <<Detail("cred", <<"e1">>)>>),
      SignIn(FALSE, Missing, Missing, Missing, <<>>, "INVALID", <<>>),
      SignIn(FALSE, Missing, Missing, Missing, <<>>, Missing, <<>>) }

\* datetime.now().isoformat() of this run
Now == "t1"

\* lines 295-308: the challenge of the first enrolled factor, up to the call
\* of firebase_mfa_start
_handle_firebase_mfa(r, result) ==
    IF result.mfaInfo = <<>> THEN Fail(r)
    ELSE [r EXCEPT !.pc = "mfa_start",
                   !.chal = [NoChal EXCEPT
                                !.pending = result.mfaPendingCredential,
                                !.enrollment = result.mfaInfo[1]]]

\* the first detail of error.errors that carries a pending credential
FirstPending(errors) ==
    LET I == {i \in 1..Len(errors) : errors[i].mfaPendingCredential # Missing}
    IN IF I = {} THEN 0 ELSE CHOOSE i \in I : \A j \in I : i <= j

\* a sign-in that updates the loaded session instead of building a new one
_firebase_login_merge(r, resp) ==
    LET r1 == [r EXCEPT !.last = <<"firebase_sign_in">>] IN
    IF resp.exc THEN Raise(r1, NetworkError)
    ELSE IF resp.mfaPendingCredential # Missing
    THEN _handle_firebase_mfa(r1, resp)
    ELSE IF Truthy(Get(resp, "idToken"))
    THEN LET a == [r.auth EXCEPT !.tag = "dict",
                                 !.firebase_token = resp.idToken,
                                 !.refresh_token = resp.refreshToken,
                                 !.captured_at = Now]
         IN [r1 EXCEPT !.auth = a, !.pc = Step2(a)]
    ELSE IF resp.message # Missing
    THEN IF resp.message = "MFA" /\ FirstPending(resp.errors) # 0
         THEN _handle_firebase_mfa(r1, resp.errors[FirstPending(resp.errors)])
         ELSE Fail(r1)
    ELSE Fail(r1)

\* lines 262-290; the session it returns holds the three new fields only
_firebase_login(r, resp) ==
    LET r1 == [r EXCEPT !.last = <<"firebase_sign_in">>] IN
    IF resp.exc THEN Raise(r1, NetworkError)
    ELSE IF resp.mfaPendingCredential # Missing
    THEN _handle_firebase_mfa(r1, resp)
    ELSE IF Truthy(Get(resp, "idToken"))
    THEN LET a == Dict(resp.idToken, resp.refreshToken, Missing, Missing, Now)
         IN [r1 EXCEPT !.auth = a, !.pc = Step2(a)]
    ELSE IF resp.message # Missing
    THEN IF resp.message = "MFA" /\ FirstPending(resp.errors) # 0
         THEN _handle_firebase_mfa(r1, resp.errors[FirstPending(resp.errors)])
         ELSE Fail(r1)
    ELSE Fail(r1)

\* lines 224-243: load, then refresh when a refresh token is stored
get_valid_auth_load(r) ==
    LET l == load_auth(r.store) IN
    IF l.exc # "none" THEN Raise(r, l.exc)
    ELSE IF IsTrue(l.value) /\ l.value.tag # "dict"
    THEN Raise([r EXCEPT !.auth = l.value], "AttributeError")
    ELSE IF IsTrue(l.value) /\ Truthy(Get(l.value, "refresh_token"))
    THEN [r EXCEPT !.auth = l.value, !.pc = "refresh"]
    ELSE [r EXCEPT !.auth = l.value, !.pc = "signin"]

\* a refresh that keeps the stored refresh token
get_valid_auth_refresh_keep(r, resp) ==
    LET res == firebase_refresh_token(resp)
        r1  == [r EXCEPT !.last = <<"firebase_refresh_token", r.auth.refresh_token>>]
    IN IF res.exc # "none" THEN Raise(r1, res.exc)
       ELSE IF Truthy(res.id_token)
       THEN LET a == [r.auth EXCEPT !.firebase_token = res.id_token]
            IN [r1 EXCEPT !.auth = a, !.pc = Step2(a)]
       ELSE [r1 EXCEPT !.pc = "signin"]

\* a refresh that writes the rotated token to AUTH_FILE at once
get_valid_auth_refresh_saving(r, resp) ==
    LET res == firebase_refresh_token(resp)
        r1  == [r EXCEPT !.last = <<"firebase_refresh_token", r.auth.refresh_token>>]
    IN IF res.exc # "none" THEN Raise(r1, res.exc)
       ELSE IF Truthy(res.id_token)
       THEN LET a == [r.auth EXCEPT !.firebase_token = res.id_token,
                                    !.refresh_token = res.refresh_token]
            IN [r1 EXCEPT !.auth = a, !.pc = Step2(a),
                          !.store = JsonFile(json_dumps(a))]
       ELSE [r1 EXCEPT !.pc = "signin"]

\* lines 228-238
get_valid_auth_refresh(r, resp) ==
    LET res == firebase_refresh_token(resp)
        r1  == [r EXCEPT !.last = <<"firebase_refresh_token", r.auth.refresh_token>>]
    IN IF res.exc # "none" THEN Raise(r1, res.exc)
       ELSE IF Truthy(res.id_token)
       THEN LET a == [r.auth EXCEPT !.firebase_token = res.id_token,
                                    !.refresh_token = res.refresh_token]
            IN [r1 EXCEPT !.auth = a, !.pc = Step2(a)]
       ELSE [r1 EXCEPT !.pc = "signin"]

\* firebase_mfa_start responses
MfaStartResponses ==
    { [exc |-> TRUE,  error |-> FALSE, sessionInfo |-> Missing],
      [exc |-> FALSE, error |-> TRUE,  sessionInfo |-> Missing],
      [exc |-> FALSE, error |-> FALSE, sessionInfo |-> Missing],
      [exc |-> FALSE, error |-> FALSE, sessionInfo |-> "sess"] }

\* a start that asks for the code whatever the provider answered
_handle_firebase_mfa_start_blind(r, resp) ==
    LET r1 == [r EXCEPT !.last = <<"firebase_mfa_start", r.chal.pending,
                                   r.chal.enrollment>>] IN
    IF resp.exc THEN Raise(r1, NetworkError)
    ELSE [r1 EXCEPT !.pc = "mfa_code", !.chal.session = resp.sessionInfo]

\* lines 308-318
_handle_firebase_mfa_start(r, resp) ==
    LET r1 == [r EXCEPT !.last = <<"firebase_mfa_start", r.chal.pending,
                                   r.chal.enrollment>>] IN
    IF resp.exc THEN Raise(r1, NetworkError)
    ELSE IF resp.error THEN Fail(r1)
    ELSE IF ~Truthy(Get(resp, "sessionInfo")) THEN Fail(r1)
    ELSE [r1 EXCEPT !.pc = "mfa_code", !.chal.session = resp.sessionInfo]

\* what the operator types at input()
TypedCodes == {"", "  ", "123456", "000000"}

\* the text as it was typed
Strip_keep(s) == s

\* str.strip()
Strip(s) == IF s = "  " THEN "" ELSE s

\* lines 319-321
_handle_firebase_mfa_code(r, typed) ==
    LET code == Strip(typed) IN
    IF ~Truthy(code) THEN Fail(r)
    ELSE [r EXCEPT !.pc = "mfa_finalize", !.chal.code = code]

\* firebase_mfa_finalize responses (the provider decides whether the code
\* is right)
MfaFinalizeResponses ==
    { [exc |-> TRUE,  error |-> FALSE, idToken |-> Missing, refreshToken |-> Missing],
      [exc |-> FALSE, error |-> TRUE,  idToken |-> Missing, refreshToken |-> Missing],
      [exc |-> FALSE, error |-> FALSE, idToken |-> "id3",   refreshToken |-> Missing],
      [exc |-> FALSE, error |-> FALSE, idToken |-> "id3",   refreshToken |-> "rt3"] }

\* a finalize that puts the new tokens into the session that was loaded
_handle_firebase_mfa_finalize_merge(r, resp) ==
    LET r1 == [r EXCEPT !.last = <<"firebase_mfa_finalize", r.chal.pending,
                                   r.chal.session, r.chal.code>>] IN
    IF resp.exc THEN Raise(r1, NetworkError)
    ELSE IF resp.error THEN Fail(r1)
    ELSE IF ~Truthy(Get(resp, "idToken")) \/ ~Truthy(Get(resp, "refreshToken"))
    THEN Fail(r1)
    ELSE LET a == [r.auth EXCEPT !.tag = "dict",
                                 !.firebase_token = resp.idToken,
                                 !.refresh_token = resp.refreshToken,
                                 !.captured_at = Now]
         IN [r1 EXCEPT !.auth = a, !.pc = Step2(a), !.chal = NoChal]

\* a refused code that is asked again and resubmitted for the same challenge
_handle_firebase_mfa_finalize_retry(r, resp) ==
    LET r1 == [r EXCEPT !.last = <<"firebase_mfa_finalize", r.chal.pending,
                                   r.chal.session, r.chal.code>>] IN
    IF resp.exc THEN Raise(r1, NetworkError)
    ELSE IF resp.error THEN [r1 EXCEPT !.pc = "mfa_code"]
    ELSE IF ~Truthy(Get(resp, "idToken")) \/ ~Truthy(Get(resp, "refreshToken"))
    THEN Fail(r1)
    ELSE LET a == Dict(resp.idToken, resp.refreshToken, Missing, Missing, Now)
         IN [r1 EXCEPT !.auth = a, !.pc = Step2(a), !.chal = NoChal]

\* lines 323-339
_handle_firebase_mfa_finalize(r, resp) ==
    LET r1 == [r EXCEPT !.last = <<"firebase_mfa_finalize", r.chal.pending,
                                   r.chal.session, r.chal.code>>] IN
    IF resp.exc THEN Raise(r1, NetworkError)
    ELSE IF resp.error THEN Fail(r1)
    ELSE IF ~Truthy(Get(resp, "idToken")) \/ ~Truthy(Get(resp, "refreshToken"))
    THEN Fail(r1)
    ELSE LET a == Dict(resp.idToken, resp.refreshToken, Missing, Missing, Now)
         IN [r1 EXCEPT !.auth = a, !.pc = Step2(a), !.chal = NoChal]

-----------------------------------------------------------------------------
(* Backend session: probe, login, 2FA *)

ProbeResponses ==
    { [exc |-> TRUE,  status |-> 0],
      [exc |-> FALSE, status |-> 200],
      [exc |-> FALSE, status |-> 401] }

\* lines 442-456: every exception is caught and gives False
test_api(resp) == ~resp.exc /\ resp.status = 200

\* lines 426-439: the pm-access-key header, Missing when it is not sent
build_headers(a) ==
    [firebase_token |-> GetOr(a, "firebase_token", ""),
     pm_access_key |-> IF Truthy(Get(a, "pm_access_key")) THEN a.pm_access_key
                       ELSE Missing]

ProbeCall(a) == <<"test_api", build_headers(a).firebase_token,
                  build_headers(a).pm_access_key>>

\* a valid probe that returns the session without saving it
get_valid_auth_probe_unsaved(r, resp) ==
    LET r1 == [r EXCEPT !.last = ProbeCall(r.auth)] IN
    IF test_api(resp) THEN [r1 EXCEPT !.pc = "fetch"]
    ELSE [r1 EXCEPT !.pc = "pm_login"]

\* a failed probe that falls back to the full sign-in
get_valid_auth_probe_resign(r, resp) ==
    LET r1 == [r EXCEPT !.last = ProbeCall(r.auth)] IN
    IF test_api(resp) THEN [r1 EXCEPT !.pc = "save"]
    ELSE [r1 EXCEPT !.pc = "signin"]

\* a probe whose answer is not looked at
get_valid_auth_probe_ignored(r, resp) ==
    [r EXCEPT !.last = ProbeCall(r.auth), !.pc = "save"]

\* lines 246-251: the probe of the cached key
get_valid_auth_probe(r, resp) ==
    LET r1 == [r EXCEPT !.last = ProbeCall(r.auth)] IN
    IF test_api(resp) THEN [r1 EXCEPT !.pc = "save"]
    ELSE [r1 EXCEPT !.pc = "pm_login"]

\* a login or validate response: user is "absent", "null" or "dict", and
\* user_access_key the access_key of the user object
Backend(exc, status, needs_2fa, key, user, user_key, v2) ==
    [exc |-> exc, status |-> status, needs_2fa |-> needs_2fa,
     access_key |-> key, user |-> user, user_access_key |-> user_key,
     verified2fa |-> v2]

LoginResponses ==
    { Backend(TRUE,  0,   FALSE, Missing, "absent", Missing, Missing),
      Backend(FALSE, 401, FALSE, Missing, "absent", Missing, Missing),
      Backend(FALSE, 200, TRUE,  Missing, "absent", Missing, Missing),
      Backend(FALSE, 200, FALSE, "k1",    "absent", Missing, Missing),
      Backend(FALSE, 200, FALSE, "k1",    "dict",   "k1u",   Missing),
      Backend(FALSE, 200, FALSE, Missing, "dict",   "k1u",   Missing),
      Backend(FALSE, 200, FALSE, "",      "dict",   Missing, Missing),
      Backend(FALSE, 200, FALSE, Missing, "null",   Missing, Missing),
      Backend(FALSE, 200, FALSE, Missing, "absent", Missing, Missing) }

\* the key at the top level only
access_key_of_top(body) == [exc |-> "none", key |-> GetOr(body, "access_key", "")]

\* lines 400-403 and 383-389: the key at the top level, else under user;
\* result.get("user", result) is the response itself when there is no user
access_key_of(body) ==
    LET top == GetOr(body, "access_key", "") IN
    IF Truthy(top) THEN [exc |-> "none", key |-> top]
    ELSE IF body.user = "null" THEN [exc |-> "AttributeError", key |-> ""]
    ELSE IF body.user = "dict"
    THEN [exc |-> "none", key |-> GetOr(body, "user_access_key", "")]
    ELSE [exc |-> "none", key |-> top]

\* lines 344-354 and 399-411
_pm_authenticate(r, resp) ==
    LET verified2fa == GetOr(r.auth, "verified2fa", "")
        r1 == [r EXCEPT !.last = <<"pm_login", r.auth.firebase_token, verified2fa>>]
        k  == access_key_of(resp)
    IN IF resp.exc THEN Raise(r1, NetworkError)
       ELSE IF resp.status # 200 THEN Fail(r1)
       ELSE IF resp.needs_2fa THEN [r1 EXCEPT !.pc = "send_code"]
       ELSE IF k.exc # "none" THEN Raise(r1, k.exc)
       ELSE IF Truthy(k.key)
       THEN [r1 EXCEPT !.auth.pm_access_key = k.key, !.pc = "confirm"]
       ELSE Fail(r1)

SendCodeResponses ==
    { [exc |-> TRUE,  status |-> 0,   token |-> Missing],
      [exc |-> FALSE, status |-> 500, token |-> Missing],
      [exc |-> FALSE, status |-> 200, token |-> Missing],
      [exc |-> FALSE, status |-> 200, token |-> "tfa"] }

\* lines 358-369
_pm_authenticate_send_code(r, resp) ==
    LET r1 == [r EXCEPT !.last = <<"pm_2fa_send_code", r.auth.firebase_token>>] IN
    IF resp.exc THEN Raise(r1, NetworkError)
    ELSE IF resp.status # 200 THEN Fail(r1)
    ELSE IF ~Truthy(GetOr(resp, "token", "")) THEN Fail(r1)
    ELSE [r1 EXCEPT !.pc = "pm_code", !.chal = [NoChal EXCEPT !.session = resp.token]]

\* lines 370-373
_pm_authenticate_code(r, typed) ==
    LET code == Strip(typed) IN
    IF ~Truthy(code) THEN Fail(r)
    ELSE [r EXCEPT !.pc = "validate", !.chal.code = code]

ValidateResponses ==
    { Backend(TRUE,  0,   FALSE, Missing, "absent", Missing, Missing),
      Backend(FALSE, 400, FALSE, Missing, "absent", Missing, Missing),
      Backend(FALSE, 200, FALSE, "k2",    "absent", Missing, "v2"),
      Backend(FALSE, 200, FALSE, "k2",    "absent", Missing, Missing),
      Backend(FALSE, 200, FALSE, Missing, "dict",   "k2u",   "v2"),
      Backend(FALSE, 200, FALSE, Missing, "null",   Missing, "v2"),
      Backend(FALSE, 200, FALSE, Missing, "absent", Missing, "v2") }

\* a validation that takes the access key and leaves verified2fa as it was
_pm_authenticate_validate_keep(r, resp) ==
    LET r1 == [r EXCEPT !.last = <<"pm_2fa_validate", r.auth.firebase_token,
                                   r.chal.session, r.chal.code>>]
        k  == access_key_of(resp)
    IN IF resp.exc THEN Raise(r1, NetworkError)
       ELSE IF resp.status # 200 THEN Fail(r1)
       ELSE IF k.exc # "none" THEN Raise(r1, k.exc)
       ELSE IF Truthy(k.key)
       THEN [r1 EXCEPT !.auth.pm_access_key = k.key,
                       !.pc = "confirm", !.chal = NoChal]
       ELSE Fail(r1)

\* lines 375-397
_pm_authenticate_validate(r, resp) ==
    LET r1 == [r EXCEPT !.last = <<"pm_2fa_validate", r.auth.firebase_token,
                                   r.chal.session, r.chal.code>>]
        k  == access_key_of(resp)
        new_verified2fa == GetOr(resp, "verified2fa", "")
    IN IF resp.exc THEN Raise(r1, NetworkError)
       ELSE IF resp.status # 200 THEN Fail(r1)
       ELSE IF k.exc # "none" THEN Raise(r1, k.exc)
       ELSE IF Truthy(k.key)
       THEN [r1 EXCEPT !.auth.pm_access_key = k.key,
                       !.auth.verified2fa = new_verified2fa,
                       !.pc = "confirm", !.chal = NoChal]
       ELSE Fail(r1)

\* a new key that is refused when its confirming probe fails
_pm_authenticate_confirm_strict(r, resp) ==
    IF test_api(resp) THEN [r EXCEPT !.last = ProbeCall(r.auth), !.pc = "save"]
    ELSE Fail([r EXCEPT !.last = ProbeCall(r.auth)])

\* a confirming probe that is made again until the key is accepted
_pm_authenticate_confirm_retry(r, resp) ==
    IF test_api(resp) THEN [r EXCEPT !.last = ProbeCall(r.auth), !.pc = "save"]
    ELSE [r EXCEPT !.last = ProbeCall(r.auth)]

\* lines 413-419 and 255-258: the result of the confirming probe is only
\* printed; the session goes to save_auth
_pm_authenticate_confirm(r, resp) ==
    [r EXCEPT !.last = ProbeCall(r.auth), !.pc = "save"]

\* lines 211-214: write_text opens the file for writing, which truncates it,
\* then writes the text
save_auth_open(r) == [r EXCEPT !.store = File("empty"), !.pc = "save_write"]

save_auth_write(r) ==
    [r EXCEPT !.store = JsonFile(json_dumps(r.auth)), !.pc = "fetch"]

\* the process dies, or write raises OSError, between the two: the file is
\* empty or holds a prefix of the text
SaveCrashes == {[error |-> "Killed", kind |-> "empty"],
                [error |-> "Killed", kind |-> "truncated"],
                [error |-> "OSError", kind |-> "truncated"]}

save_auth_crash(r, c) ==
    [r EXCEPT !.store = File(c.kind), !.pc = "crashed", !.error = c.error]

-----------------------------------------------------------------------------
(* fetch_data *)

ALL_TYPES == {"players", "teams", "programs", "tournaments", "games"}

\* the order in which fetch_data treats the resource kinds
KindOrder == <<"players", "teams", "programs", "tournaments", "games">>

Endpoints ==
    [players     |-> <<"/players">>,
     teams       |-> <<"/teams">>,
     programs    |-> <<"/program_admin/programs">>,
     tournaments |-> <<"/tournaments", "/events", "/program_admin/events",
                       "/program_admin/tournaments">>,
     games       |-> <<"/games", "/matches", "/schedule", "/program_admin/games",
                       "/program_admin/schedule">>]

FetchPc ==
    [players |-> "fetch_players", teams |-> "fetch_teams",
     programs |-> "fetch_programs", tournaments |-> "fetch_tournaments",
     games |-> "fetch_games"]

\* the kinds named on the command line and no other
Needed_flags(kind, types) == kind \in types

\* lines 479-480, 482, 494, 503, 511, 524: is the kind fetched
Needed(kind, types) ==
    IF kind = "teams" THEN "teams" \in types \/ "players" \in types
    ELSE IF kind = "programs" THEN "programs" \in types \/ "players" \in types
    ELSE kind \in types

\* the position after the i-th kind: the next kind that is fetched
NextKind(i, types) ==
    LET J == {j \in (i + 1)..Len(KindOrder) : Needed(KindOrder[j], types)}
    IN IF J = {} THEN "export"
       ELSE FetchPc[KindOrder[CHOOSE j \in J : \A k \in J : j <= k]]

NoPayload == [from |-> Missing]

\* the outcomes of one GET: a decodable 200, or an exception of requests
\* (network), of raise_for_status or of resp.json()
ApiResponses == {"ok", NetworkError, "HTTPError", "JSONDecodeError"}

\* lines 459-466: the payload names the endpoint that served it
api_get(endpoint, resp) ==
    IF resp = "ok" THEN [exc |-> "none", payload |-> [from |-> endpoint]]
    ELSE [exc |-> resp, payload |-> NoPayload]

\* a loop without its break: a success goes on to the next candidate
fetch_step_no_break(i, resp) ==
    LET kind == KindOrder[i]
        got  == api_get(Endpoints[kind][cand], resp)
    IN /\ pc = FetchPc[kind]
       /\ attempts' = Append(attempts, [endpoint |-> Endpoints[kind][cand],
                                        ok |-> got.exc = "none"])
       /\ data' = IF got.exc = "none" THEN [data EXCEPT ![kind] = got.payload]
                  ELSE data
       /\ IF cand < Len(Endpoints[kind])
          THEN cand' = cand + 1 /\ pc' = pc
          ELSE cand' = 1 /\ pc' = NextKind(i, requested)

\* a failure that is not caught per resource: after the last failed
\* candidate of a kind no other kind is fetched
fetch_step_abort(i, resp) ==
    LET kind == KindOrder[i]
        got  == api_get(Endpoints[kind][cand], resp)
    IN /\ pc = FetchPc[kind]
       /\ attempts' = Append(attempts, [endpoint |-> Endpoints[kind][cand],
                                        ok |-> got.exc = "none"])
       /\ IF got.exc = "none"
          THEN /\ data' = [data EXCEPT ![kind] = got.payload]
               /\ cand' = 1
               /\ pc' = NextKind(i, requested)
          ELSE /\ data' = data
               /\ IF cand < Len(Endpoints[kind])
                  THEN cand' = cand + 1 /\ pc' = pc
                  ELSE cand' = 1 /\ pc' = "export"

\* a kind that is found nowhere sends the run back to the backend login
fetch_step_reauth(i, resp) ==
    LET kind == KindOrder[i]
        got  == api_get(Endpoints[kind][cand], resp)
    IN /\ pc = FetchPc[kind]
       /\ attempts' = Append(attempts, [endpoint |-> Endpoints[kind][cand],
                                        ok |-> got.exc = "none"])
       /\ IF got.exc = "none"
          THEN /\ data' = [data EXCEPT ![kind] = got.payload]
               /\ cand' = 1
               /\ pc' = NextKind(i, requested)
          ELSE /\ data' = data
               /\ IF cand < Len(Endpoints[kind])
                  THEN cand' = cand + 1 /\ pc' = pc
                  ELSE cand' = 1 /\ pc' = "pm_login"

\* one try/except around api_get: the i-th kind, its candidate c.  A
\* success stores the payload and leaves the loop; a failure goes to the
\* next candidate, or to the next kind after the last one
fetch_step(i, resp) ==
    LET kind == KindOrder[i]
        got  == api_get(Endpoints[kind][cand], resp)
    IN /\ pc = FetchPc[kind]
       /\ attempts' = Append(attempts, [endpoint |-> Endpoints[kind][cand],
                                        ok |-> got.exc = "none"])
       /\ IF got.exc = "none"
          THEN /\ data' = [data EXCEPT ![kind] = got.payload]
               /\ cand' = 1
               /\ pc' = NextKind(i, requested)
          ELSE /\ data' = data
               /\ IF cand < Len(Endpoints[kind])
                  THEN cand' = cand + 1 /\ pc' = pc
                  ELSE cand' = 1 /\ pc' = NextKind(i, requested)

-----------------------------------------------------------------------------
(* The run *)

CallNames == {"firebase_refresh_token", "firebase_sign_in", "firebase_mfa_start",
              "firebase_mfa_finalize", "test_api", "pm_login",
              "pm_2fa_send_code", "pm_2fa_validate"}

\* what AUTH_FILE can hold when the run starts
StoredSessions ==
    { Dict(ft, rt, key, v2, at) :
        ft \in {"id0"}, rt \in {Missing, "rt0"}, key \in {Missing, "k0"},
        v2 \in {Missing, "v0"}, at \in {"t0"} }
    \cup {Dict(Missing, Missing, Missing, Missing, Missing)}

InitialStores ==
    { File(k) : k \in {"absent", "unreadable", "undecodable", "garbage", "empty"} }
    \cup { JsonFile(json_dumps(v)) : v \in StoredSessions }
    \cup { JsonFile(json_dumps(Other(t))) : t \in {"None", "falsy", "truthy"} }

\* sets parse_args and lines 737-742 can give: no flag (everything), one
\* flag, two flags
RequestedSets ==
    { ALL_TYPES, {"players"}, {"teams"}, {"programs", "games"},
      {"tournaments", "games"} }

Init ==
    /\ password \in {"", "pw"}
    /\ requested \in RequestedSets
    /\ store \in InitialStores
    /\ store0 = store
    /\ pc = "main"
    /\ error = "none"
    /\ auth = PyNone
    /\ chal = NoChal
    /\ data = [k \in ALL_TYPES |-> NoPayload]
    /\ cand = 1
    /\ last = <<>>
    /\ saves = 0
    /\ ncalls = [c \in CallNames |-> 0]
    /\ attempts = <<>>
    /\ refreshed = Missing
    /\ issued = {}
    /\ probed = {}
    /\ twin = TwinOff
    /\ answer = NoAnswer
    /\ validated = Missing
    /\ runs = 1
    /\ inherited = Missing

Inputs == <<password, requested, store0, runs, inherited>>
FetchVars == <<data, cand, attempts>>
AuthHist == <<refreshed, issued, probed, answer, validated>>

Step(r) ==
    /\ pc' = r.pc
    /\ error' = r.error
    /\ store' = r.store
    /\ auth' = r.auth
    /\ chal' = r.chal
    /\ last' = r.last

Called(name) == ncalls' = [ncalls EXCEPT ![name] = @ + 1]

\* the reference run takes the same step when it is at the same position
Lock(Op(_, _), x) == twin' = IF twin.pc = pc THEN Op(twin, x) ELSE twin
Lock1(Op(_)) == twin' = IF twin.pc = pc THEN Op(twin) ELSE twin

\* lines 748-756
CheckPassword ==
    /\ pc = "main"
    /\ pc' = IF password = "" THEN "no_password" ELSE "load"
    /\ UNCHANGED <<error, store, auth, chal, last, saves, ncalls, twin>>
    /\ UNCHANGED <<Inputs, FetchVars, AuthHist>>

LoadAuth ==
    /\ pc = "load"
    /\ Step(get_valid_auth_load(Cur))
    /\ UNCHANGED <<saves, ncalls, twin, Inputs, FetchVars, AuthHist>>

\* a rejected refresh starts the reference run: a run of the same code on
\* an absent AUTH_FILE, which is then fed the same responses
Refresh ==
    /\ pc = "refresh"
    /\ \E resp \in RefreshResponses :
         LET r2 == get_valid_auth_refresh(Cur, resp) IN
         /\ Step(r2)
         /\ refreshed' = IF ~resp.exc /\ resp.status = 200 /\ Truthy(resp.id_token)
                         THEN resp.refresh_token ELSE refreshed
         /\ twin' = IF r2.pc = "signin"
                    THEN get_valid_auth_load(Fresh(File("absent")))
                    ELSE twin
    /\ Called("firebase_refresh_token")
    /\ UNCHANGED <<saves, Inputs, FetchVars, issued, probed, answer, validated>>

FirebaseSignIn ==
    /\ pc = "signin"
    /\ \E resp \in SignInResponses :
         LET r2 == _firebase_login(Cur, resp) IN
         /\ Step(r2)
         /\ Lock(_firebase_login, resp)
         /\ answer' = IF r2.pc \in {"mfa_start", "auth_failed", "crashed"}
                      THEN Answer("firebase_sign_in", resp) ELSE NoAnswer
    /\ Called("firebase_sign_in")
    /\ UNCHANGED <<saves, Inputs, FetchVars, refreshed, issued, probed, validated>>

FirebaseMfaStart ==
    /\ pc = "mfa_start"
    /\ \E resp \in MfaStartResponses :
         /\ Step(_handle_firebase_mfa_start(Cur, resp))
         /\ Lock(_handle_firebase_mfa_start, resp)
    /\ Called("firebase_mfa_start")
    /\ UNCHANGED <<saves, Inputs, FetchVars, AuthHist>>

FirebaseMfaCode ==
    /\ pc = "mfa_code"
    /\ \E typed \in TypedCodes :
         /\ Step(_handle_firebase_mfa_code(Cur, typed))
         /\ Lock(_handle_firebase_mfa_code, typed)
    /\ UNCHANGED <<saves, ncalls, Inputs, FetchVars, AuthHist>>

FirebaseMfaFinalize ==
    /\ pc = "mfa_finalize"
    /\ \E resp \in MfaFinalizeResponses :
         LET r2 == _handle_firebase_mfa_finalize(Cur, resp) IN
         /\ Step(r2)
         /\ Lock(_handle_firebase_mfa_finalize, resp)
         /\ answer' = IF r2.pc \in {"auth_failed", "crashed"} THEN answer
                      ELSE NoAnswer
    /\ Called("firebase_mfa_finalize")
    /\ UNCHANGED <<saves, Inputs, FetchVars, refreshed, issued, probed, validated>>

ProbeCachedKey ==
    /\ pc = "probe"
    /\ \E resp \in ProbeResponses :
         /\ Step(get_valid_auth_probe(Cur, resp))
         /\ Lock(get_valid_auth_probe, resp)
         /\ probed' = IF ~resp.exc /\ resp.status = 200
                      THEN probed \cup {build_headers(auth).pm_access_key}
                      ELSE probed
    /\ Called("test_api")
    /\ UNCHANGED <<saves, Inputs, FetchVars, refreshed, issued, answer, validated>>

\* the keys a backend response with status 200 carries
KeysIn(resp) ==
    IF resp.exc \/ resp.status # 200 THEN {}
    ELSE {resp.access_key, resp.user_access_key} \ {Missing, ""}

PmLogin ==
    /\ pc = "pm_login"
    /\ \E resp \in LoginResponses :
         /\ Step(_pm_authenticate(Cur, resp))
         /\ Lock(_pm_authenticate, resp)
         /\ issued' = issued \cup KeysIn(resp)
         /\ answer' = Answer("pm_login", resp)
    /\ Called("pm_login")
    /\ UNCHANGED <<saves, Inputs, FetchVars, refreshed, probed, validated>>

PmSendCode ==
    /\ pc = "send_code"
    /\ \E resp \in SendCodeResponses :
         /\ Step(_pm_authenticate_send_code(Cur, resp))
         /\ Lock(_pm_authenticate_send_code, resp)
    /\ Called("pm_2fa_send_code")
    /\ UNCHANGED <<saves, Inputs, FetchVars, AuthHist>>

PmCode ==
    /\ pc = "pm_code"
    /\ \E typed \in TypedCodes :
         /\ Step(_pm_authenticate_code(Cur, typed))
         /\ Lock(_pm_authenticate_code, typed)
    /\ UNCHANGED <<saves, ncalls, Inputs, FetchVars, AuthHist>>

PmValidate ==
    /\ pc = "validate"
    /\ \E resp \in ValidateResponses :
         /\ Step(_pm_authenticate_validate(Cur, resp))
         /\ Lock(_pm_authenticate_validate, resp)
         /\ issued' = issued \cup KeysIn(resp)
         /\ answer' = Answer("pm_2fa_validate", resp)
         /\ validated' = IF ~resp.exc /\ resp.status = 200 /\ KeysIn(resp) # {}
                         THEN resp.verified2fa ELSE validated
    /\ Called("pm_2fa_validate")
    /\ UNCHANGED <<saves, Inputs, FetchVars, refreshed, probed>>

ConfirmKey ==
    /\ pc = "confirm"
    /\ \E resp \in ProbeResponses :
         /\ Step(_pm_authenticate_confirm(Cur, resp))
         /\ Lock(_pm_authenticate_confirm, resp)
         /\ probed' = IF ~resp.exc /\ resp.status = 200
                      THEN probed \cup {build_headers(auth).pm_access_key}
                      ELSE probed
    /\ answer' = NoAnswer
    /\ Called("test_api")
    /\ UNCHANGED <<saves, Inputs, FetchVars, refreshed, issued, validated>>

SaveOpen ==
    /\ pc = "save"
    /\ Step(save_auth_open(Cur))
    /\ Lock1(save_auth_open)
    /\ saves' = saves + 1
    /\ UNCHANGED <<ncalls, Inputs, FetchVars, AuthHist>>

SaveWrite ==
    /\ pc = "save_write"
    /\ Step(save_auth_write(Cur))
    /\ Lock1(save_auth_write)
    /\ UNCHANGED <<saves, ncalls, Inputs, FetchVars, AuthHist>>

SaveCrash ==
    /\ pc = "save_write"
    /\ \E c \in SaveCrashes :
         Step(save_auth_crash(Cur, c)) /\ Lock(save_auth_crash, c)
    /\ UNCHANGED <<saves, ncalls, Inputs, FetchVars, AuthHist>>

AuthFrame == <<error, store, auth, chal, last, saves, ncalls, twin, Inputs, AuthHist>>

\* a main without the return of line 759
FetchStart_no_return ==
    /\ pc \in {"fetch", "auth_failed"}
    /\ pc' = NextKind(0, requested)
    /\ data' = [k \in ALL_TYPES |-> NoPayload]
    /\ UNCHANGED <<cand, attempts, AuthFrame>>

\* line 763 and lines 476-480
FetchStart ==
    /\ pc = "fetch"
    /\ pc' = NextKind(0, requested)
    /\ data' = [k \in ALL_TYPES |-> NoPayload]
    /\ UNCHANGED <<cand, attempts, AuthFrame>>

FetchPlayers ==
    /\ \E resp \in ApiResponses : fetch_step(1, resp)
    /\ UNCHANGED AuthFrame

FetchTeams ==
    /\ \E resp \in ApiResponses : fetch_step(2, resp)
    /\ UNCHANGED AuthFrame

FetchPrograms ==
    /\ \E resp \in ApiResponses : fetch_step(3, resp)
    /\ UNCHANGED AuthFrame

FetchTournaments ==
    /\ \E resp \in ApiResponses : fetch_step(4, resp)
    /\ UNCHANGED AuthFrame

FetchGames ==
    /\ \E resp \in ApiResponses : fetch_step(5, resp)
    /\ UNCHANGED AuthFrame

\* lines 765-797: the CSV export reads data only
Export ==
    /\ pc = "export"
    /\ pc' = "done"
    /\ UNCHANGED <<FetchVars, AuthFrame>>

Next ==
    \/ CheckPassword
    \/ LoadAuth
    \/ Refresh
    \/ FirebaseSignIn
    \/ FirebaseMfaStart
    \/ FirebaseMfaCode
    \/ FirebaseMfaFinalize
    \/ ProbeCachedKey
    \/ PmLogin
    \/ PmSendCode
    \/ PmCode
    \/ PmValidate
    \/ ConfirmKey
    \/ SaveOpen
    \/ SaveWrite
    \/ SaveCrash
    \/ FetchStart
    \/ FetchPlayers
    \/ FetchTeams
    \/ FetchPrograms
    \/ FetchTournaments
    \/ FetchGames
    \/ Export

Spec == Init /\ [][Next]_vars

\* the number of runs of the program over the same AUTH_FILE
MaxRuns == 2

\* the program is started again: the new process finds the AUTH_FILE the
\* previous one left and nothing else
Restart ==
    /\ pc \in {"no_password", "auth_failed", "crashed", "done"}
    /\ runs < MaxRuns
    /\ runs' = runs + 1
    /\ inherited' = validated
    /\ store0' = store
    /\ pc' = "main"
    /\ error' = "none"
    /\ auth' = PyNone
    /\ chal' = NoChal
    /\ data' = [k \in ALL_TYPES |-> NoPayload]
    /\ cand' = 1
    /\ last' = <<>>
    /\ saves' = 0
    /\ ncalls' = [c \in CallNames |-> 0]
    /\ attempts' = <<>>
    /\ refreshed' = Missing
    /\ issued' = {}
    /\ probed' = {}
    /\ twin' = TwinOff
    /\ answer' = NoAnswer
    /\ validated' = Missing
    /\ UNCHANGED <<password, requested, store>>

NextRuns == Next \/ Restart

SpecRuns == Init /\ [][NextRuns]_vars

-----------------------------------------------------------------------------
(* Properties *)

FetchPhase == {"fetch", "fetch_players", "fetch_teams", "fetch_programs",
               "fetch_tournaments", "fetch_games", "export", "done"}

RunEnded == pc \in {"no_password", "auth_failed", "crashed", "done"}

\* the value AUTH_FILE holds for a key, Missing when it holds no session
\* or the session has no such key
Persisted(st, k) ==
    IF st.kind = "json" /\ st.type = "object" /\ k \in DOMAIN st.members
    THEN st.members[k] ELSE Missing

WellFormed(st) == st.kind = "json" /\ st.type = "object"

\* C1 as stated: after a successful refresh the store holds the returned
\* refresh token when get_valid_auth has returned, with or without a
\* session, whatever the later steps did.
C1_RotationEveryOutcome ==
    (pc \in FetchPhase \cup {"auth_failed"} /\ refreshed # Missing)
        => Persisted(store, "refresh_token") = refreshed

\* C1 amended: after a successful refresh, whenever get_valid_auth returns a
\* session the store holds the returned refresh token.
C1_RotationOnSuccess ==
    (pc \in FetchPhase /\ refreshed # Missing)
        => Persisted(store, "refresh_token") = refreshed

\* the provider rotated rt0 to rt1 and the run was completed
C1_Witness ==
    /\ pc = "done"
    /\ refreshed = "rt1"
    /\ Persisted(store0, "refresh_token") = "rt0"
    /\ Persisted(store, "refresh_token") = "rt1"

\* C2: in the fetch phase the session's access key is non-empty and was
\* issued by the backend in this run or passed a probe in this run.
C2_KeyTrusted ==
    pc \in FetchPhase
        => /\ Truthy(Get(auth, "pm_access_key"))
           /\ auth.pm_access_key \in issued \cup probed

\* a refreshed session whose stored key failed the probe and was replaced
C2_Witness ==
    /\ pc = "done"
    /\ refreshed # Missing
    /\ Persisted(store0, "pm_access_key") = "k0"
    /\ "k0" \notin probed
    /\ auth.pm_access_key \in issued

\* C3: when get_valid_auth fails, save_auth was not called and the store is
\* what it was when the run started.
C3_NoPartialSession ==
    pc = "auth_failed" => saves = 0 /\ store = store0

\* a wrong backend code after a successful refresh
C3_Witness ==
    /\ pc = "auth_failed"
    /\ refreshed # Missing
    /\ ncalls["pm_2fa_validate"] = 1
    /\ store = store0

\* the position of the reference run: it is not followed into the fetch
Phase(p) == IF p \in FetchPhase THEN "fetch" ELSE p

\* C4 as stated: after a rejected refresh the run is at the same position,
\* made the same call and has the same outcome as the run on an absent
\* store, and the same persisted state when get_valid_auth has returned.
C4_SameAsNoSession ==
    (twin.pc # "off" /\ pc # "signin")
        => /\ twin.pc = Phase(pc)
           /\ twin.last = last
           /\ twin.error = error
           /\ pc \in FetchPhase \cup {"auth_failed"} => twin.store = store

\* the positions inside _firebase_login, where the `auth` of get_valid_auth
\* still holds what was loaded and is not read
InSignIn == {"signin", "mfa_start", "mfa_code", "mfa_finalize"}

\* C4 amended: same position, same calls, same outcome and, once the sign-in
\* has returned, the same session in memory; the same persisted state once
\* save_auth has run, and otherwise each store as it was when its run
\* started.
C4_SameAsNoSessionButStore ==
    (twin.pc # "off" /\ pc # "signin")
        => /\ twin.pc = Phase(pc)
           /\ twin.last = last
           /\ twin.error = error
           /\ pc \notin InSignIn \cup {"crashed"} => twin.auth = auth
           /\ IF saves > 0 THEN twin.store = store
              ELSE store = store0 /\ twin.store = File("absent")

\* a stored session with access key and remember token, refresh rejected,
\* full sign-in, session saved
C4_Witness ==
    /\ pc = "done"
    /\ twin.pc = "fetch"
    /\ Persisted(store0, "pm_access_key") = "k0"
    /\ Persisted(store0, "verified2fa") = "v0"
    /\ ncalls["firebase_refresh_token"] = 1
    /\ ncalls["firebase_sign_in"] = 1

\* C5 as stated: a timeout or connection failure of an authentication call
\* never ends the run as an unhandled error.
C5_NetworkErrorIsRejected ==
    ~(pc = "crashed" /\ error = NetworkError)

\* C6 as stated: after a crash during save_auth the store holds the previous
\* content or the new session.
C6_CrashSafeSave ==
    (pc = "crashed" /\ saves > 0)
        => store \in {store0, JsonFile(json_dumps(auth))}

\* C7 as stated: with a store that is no well-formed session the run never
\* ends with an error raised before any call was made, and it makes no
\* refresh call: it goes to the full sign-in like a first run.
C7_CorruptStoreIsAbsent ==
    ~WellFormed(store0)
        => /\ ~(pc = "crashed" /\ last = <<>>)
           /\ ncalls["firebase_refresh_token"] = 0

\* the attempts made for a kind, in the order they were made
AttemptsOf(kind) ==
    LET E == {Endpoints[kind][i] : i \in 1..Len(Endpoints[kind])}
        Mine(a) == a.endpoint \in E
    IN SelectSeq(attempts, Mine)

\* has the run left the loop of the kind
Finished(kind) ==
    LET i == CHOOSE j \in 1..Len(KindOrder) : KindOrder[j] = kind
        Later == {FetchPc[KindOrder[j]] : j \in (i + 1)..Len(KindOrder)}
    IN pc \in Later \cup {"export", "done"}

\* C8: the candidates of tournaments and games are attempted in the declared
\* order, each at most once; every attempt before the last one failed; a
\* success is the last attempt and its payload is the result; when the loop
\* is left without a success every candidate was attempted once.
C8_OrderedCandidates ==
    \A kind \in {"tournaments", "games"} :
        LET E == Endpoints[kind]
            A == AttemptsOf(kind)
        IN /\ Len(A) <= Len(E)
           /\ \A i \in 1..Len(A) : A[i].endpoint = E[i]
           /\ \A i \in 1..(Len(A) - 1) : ~A[i].ok
           /\ (Len(A) > 0 /\ A[Len(A)].ok) => data[kind] = [from |-> E[Len(A)]]
           /\ (\A i \in 1..Len(A) : ~A[i].ok) => data[kind] = NoPayload
           /\ (Finished(kind) /\ kind \in requested)
                => Len(A) > 0 /\ (A[Len(A)].ok \/ Len(A) = Len(E))

\* [A, B, C] with A and B failing and C succeeding
C8_Witness ==
    /\ pc = "done"
    /\ AttemptsOf("tournaments") =
         << [endpoint |-> "/tournaments", ok |-> FALSE],
            [endpoint |-> "/events", ok |-> FALSE],
            [endpoint |-> "/program_admin/events", ok |-> TRUE] >>
    /\ data["tournaments"] = [from |-> "/program_admin/events"]

\* C9: when fetch_data has returned, every kind that is fetched was
\* attempted, whatever happened to the other kinds, and a kind whose
\* candidates all failed has no entry in data; no failure ends the run.
C9_PartialSuccess ==
    /\ pc \in FetchPhase => error = "none"
    /\ pc \in {"export", "done"} =>
         \A kind \in ALL_TYPES :
            LET A == AttemptsOf(kind) IN
            /\ Needed(kind, requested) <=> Len(A) > 0
            /\ (\A i \in 1..Len(A) : ~A[i].ok) <=> data[kind] = NoPayload

\* players and every tournament candidate fail, the later kinds are fetched
C9_Witness ==
    /\ pc = "done"
    /\ requested = ALL_TYPES
    /\ data["players"] = NoPayload
    /\ data["tournaments"] = NoPayload
    /\ Len(AttemptsOf("tournaments")) = 4
    /\ data["teams"] # NoPayload
    /\ data["games"] # NoPayload

\* C10: once get_valid_auth has returned no session the run has ended: no
\* step follows and no api_get call is made.
C10_NoFetchAfterAuthFailure ==
    [][pc = "auth_failed" => pc' = "auth_failed" /\ attempts' = <<>>]_vars

C10_Witness ==
    pc = "auth_failed" /\ attempts = <<>> /\ ncalls["firebase_sign_in"] = 1

\* the access key the run found in AUTH_FILE
CachedKey == Persisted(store0, "pm_access_key")

\* C11: the refresh call is made only when the store holds a refresh token
\* and without one the run goes to the full sign-in; the probe is made only
\* with a key in the session; a valid probe goes to save_auth and pm_login
\* is not called in the run, an invalid probe goes to pm_login; pm_login is
\* otherwise reached only with no key in the session and no probe made.
C11_ProbeGatedExchange ==
    [][ /\ (pc = "load" /\ pc' \notin {"load", "crashed"})
            => (pc' = "refresh" <=> Truthy(Persisted(store, "refresh_token")))
               /\ (pc' = "signin" <=> ~Truthy(Persisted(store, "refresh_token")))
        /\ ncalls'["firebase_refresh_token"] # ncalls["firebase_refresh_token"]
            => Truthy(Persisted(store0, "refresh_token"))
        /\ (pc' = "probe" /\ pc # "probe")
            => Truthy(Get(auth', "pm_access_key")) /\ ncalls'["test_api"] = 0
        /\ pc = "probe"
            => IF build_headers(auth).pm_access_key \in probed'
               THEN pc' = "save" /\ ncalls'["pm_login"] = 0
               ELSE pc' = "pm_login"
        /\ (pc' = "pm_login" /\ pc # "pm_login")
            => \/ pc = "probe"
               \/ ~Truthy(Get(auth', "pm_access_key")) /\ ncalls'["test_api"] = 0
        /\ ncalls'["pm_login"] # ncalls["pm_login"] => pc = "pm_login"
        /\ pc \in {"save", "save_write"} \cup FetchPhase
            => ncalls'["pm_login"] = ncalls["pm_login"]
      ]_vars

\* the cached key probed valid: the run is completed without pm_login
C11_Witness ==
    /\ pc = "done"
    /\ CachedKey \in probed
    /\ ncalls["test_api"] = 1
    /\ ncalls["pm_login"] = 0

\* the identity tokens a refresh returns
RefreshedIds == {r.id_token : r \in RefreshResponses} \ {Missing}

\* stored refresh token, refresh succeeded, the probe of the cached key was
\* made and failed
Scenario2 ==
    /\ refreshed # Missing
    /\ Truthy(CachedKey)
    /\ ncalls["test_api"] >= 1
    /\ CachedKey \notin probed

\* C12: in scenario 2 the run is at the exchange or has called pm_login
\* once, firebase_sign_in is not called, and the exchange was sent the
\* refreshed identity token and the stored remember token.
C12_ExchangeWithoutSignIn ==
    Scenario2
        => /\ ncalls["firebase_sign_in"] = 0
           /\ IF pc = "pm_login" THEN ncalls["pm_login"] = 0
              ELSE ncalls["pm_login"] = 1
           /\ (Len(last) > 0 /\ last[1] = "pm_login")
                => /\ last[2] \in RefreshedIds
                   /\ last[3] = GetOr(json_loads(store0), "verified2fa", "")

C12_Witness ==
    /\ Scenario2
    /\ pc = "confirm"
    /\ last = <<"pm_login", "id1", "v0">>

\* the stored refresh token was refused, the full sign-in met the provider's
\* second factor and the finalize call was made
Scenario3 ==
    /\ ncalls["firebase_refresh_token"] = 1
    /\ refreshed = Missing
    /\ ncalls["firebase_sign_in"] = 1
    /\ ncalls["firebase_mfa_finalize"] = 1

\* C13: in scenario 3 the backend exchange is sent the identity token of the
\* finalize call and the remember token of the stored session, so that the
\* backend does not ask for its own code.
C13_RememberTokenPresented ==
    (Scenario3 /\ Len(last) > 0 /\ last[1] = "pm_login")
        => /\ last[2] \in {r.idToken : r \in MfaFinalizeResponses}
           /\ last[3] = GetOr(json_loads(store0), "verified2fa", "")

\* no stored session, one sign-in without second factor, one backend
\* exchange without backend code, and the fetch loop is over
Scenario1 ==
    /\ store0.kind = "absent"
    /\ ncalls["firebase_sign_in"] = 1
    /\ ncalls["firebase_mfa_start"] = 0
    /\ ncalls["pm_login"] = 1
    /\ ncalls["pm_2fa_send_code"] = 0
    /\ pc \in {"export", "done"}

\* the session holds an access key of the backend and AUTH_FILE holds it
KeyPersisted ==
    /\ Truthy(Get(auth, "pm_access_key"))
    /\ Get(auth, "pm_access_key") \in issued
    /\ Persisted(store, "pm_access_key") = Get(auth, "pm_access_key")

\* one fetch of the kind: one pass over its candidates, from the first one
OneFetch(kind) ==
    LET E == Endpoints[kind]
        A == AttemptsOf(kind)
    IN /\ Len(A) >= 1
       /\ Len(A) <= Len(E)
       /\ \A i \in 1..Len(A) : A[i].endpoint = E[i]

\* the kinds fetch_data fetches: players brings teams and programs along
KindsFetched ==
    requested \cup (IF "players" \in requested THEN {"teams", "programs"} ELSE {})

\* C14 as stated: in scenario 1 the access key is persisted and there is one
\* fetch for every requested kind and none for any other kind.
C14_OneFetchPerRequestedKind ==
    Scenario1
        => /\ KeyPersisted
           /\ \A kind \in ALL_TYPES :
                IF kind \in requested THEN OneFetch(kind)
                ELSE Len(AttemptsOf(kind)) = 0

\* C14: in scenario 1 the access key is persisted and there is one fetch for
\* every requested kind, one for teams and one for programs when players is
\* requested, and none for any other kind.
C14_OneFetchPerFetchedKind ==
    Scenario1
        => /\ KeyPersisted
           /\ \A kind \in ALL_TYPES :
                IF kind \in KindsFetched THEN OneFetch(kind)
                ELSE Len(AttemptsOf(kind)) = 0

C14_Witness ==
    /\ Scenario1
    /\ pc = "done"
    /\ requested = {"players"}
    /\ Len(AttemptsOf("players")) = 1
    /\ Len(AttemptsOf("teams")) = 1

\* does the sign-in response carry a pending credential, at the top level or
\* in a detail of error.errors
CarriesPending(body) ==
    body.mfaPendingCredential # Missing \/ FirstPending(body.errors) # 0

\* the enrollment info that comes with the pending credential
EnrollmentOf(body) ==
    IF body.mfaPendingCredential # Missing THEN body.mfaInfo
    ELSE body.errors[FirstPending(body.errors)].mfaInfo

\* C15: a sign-in response that carries a pending credential, at the top
\* level or nested, whatever its message, starts the challenge of the first
\* enrolled factor; with no enrollment info the sign-in is rejected with no
\* start and no finalize call.
C15_MfaDetected ==
    (answer.of = "firebase_sign_in" /\ ~answer.body.exc /\ CarriesPending(answer.body))
        => IF EnrollmentOf(answer.body) = <<>>
           THEN /\ pc = "auth_failed"
                /\ ncalls["firebase_mfa_start"] = 0
                /\ ncalls["firebase_mfa_finalize"] = 0
           ELSE /\ pc = "mfa_start" \/ ncalls["firebase_mfa_start"] = 1
                /\ chal.pending = "cred"
                /\ chal.enrollment = EnrollmentOf(answer.body)[1]

\* C16: a run starts at most one provider challenge and at most one backend
\* challenge, and makes at most one finalize call and one validate call for
\* it; the finalize call gives the session its new tokens, the validate call
\* its access key, or the authentication has failed; after the call the run
\* is never back at a step of the same challenge.
C16_SingleUseChallenge ==
    /\ ncalls["firebase_mfa_start"] <= 1
    /\ ncalls["firebase_mfa_finalize"] <= ncalls["firebase_mfa_start"]
    /\ ncalls["pm_2fa_send_code"] <= 1
    /\ ncalls["pm_2fa_validate"] <= ncalls["pm_2fa_send_code"]
    /\ ncalls["firebase_mfa_finalize"] = 1
         => pc \notin {"mfa_start", "mfa_code", "mfa_finalize"}
    /\ ncalls["pm_2fa_validate"] = 1
         => pc \notin {"send_code", "pm_code", "validate"}
    /\ (Len(last) > 0 /\ last[1] = "firebase_mfa_finalize")
         => \/ pc \in {"auth_failed", "crashed"}
            \/ /\ pc \in {"probe", "pm_login"}
               /\ \E resp \in MfaFinalizeResponses :
                    /\ Truthy(resp.idToken) /\ Truthy(resp.refreshToken)
                    /\ auth.firebase_token = resp.idToken
                    /\ auth.refresh_token = resp.refreshToken
    /\ (Len(last) > 0 /\ last[1] = "pm_2fa_validate")
         => \/ pc \in {"auth_failed", "crashed"}
            \/ pc = "confirm" /\ Get(auth, "pm_access_key") \in issued

\* both challenges were met, each answered by one call, and the run is over
C16_Witness ==
    /\ pc = "done"
    /\ ncalls["firebase_mfa_finalize"] = 1
    /\ ncalls["pm_2fa_validate"] = 1

\* C17: after a validation that returned an access key and a remember token,
\* the session holds the returned token from then on and AUTH_FILE holds it
\* once save_auth has returned; in the next run, after a successful refresh,
\* pm_login is sent the token the previous run's validation returned.
C17_RememberTokenReplaced ==
    /\ (validated # Missing /\ pc \in {"confirm", "save", "save_write"} \cup FetchPhase)
         => Get(auth, "verified2fa") = validated
    /\ (validated # Missing /\ pc \in FetchPhase)
         => Persisted(store, "verified2fa") = validated
    /\ (inherited # Missing /\ refreshed # Missing
          /\ Len(last) > 0 /\ last[1] = "pm_login")
         => last[3] = inherited

\* the second run refreshed the tokens and sent the exchange the remember
\* token that the first run's validation returned
C17_Witness ==
    /\ runs = 2
    /\ inherited = "v2"
    /\ refreshed # Missing
    /\ last = <<"pm_login", "id1", "v2">>

\* the access key under the user object of a backend response
NestedKey(body) == IF body.user = "dict" THEN body.user_access_key ELSE Missing

\* C18: when a 200 login response that asks for no code, or a 200 validate
\* response, has a non-empty access key at the top level the session gets
\* that key; otherwise, when it has one under user, the session gets that
\* one; the authentication fails on such a response only when neither
\* location holds a non-empty key.
C18_KeyExtraction ==
    (/\ answer.of \in {"pm_login", "pm_2fa_validate"}
     /\ ~answer.body.exc
     /\ answer.body.status = 200
     /\ ~(answer.of = "pm_login" /\ answer.body.needs_2fa))
        => LET top    == answer.body.access_key
               nested == NestedKey(answer.body)
           IN /\ Truthy(top)
                   => pc = "confirm" /\ Get(auth, "pm_access_key") = top
              /\ (~Truthy(top) /\ Truthy(nested))
                   => pc = "confirm" /\ Get(auth, "pm_access_key") = nested
              /\ pc = "auth_failed" => ~Truthy(top) /\ ~Truthy(nested)

\* a validate response with the key under user only
C18_Witness ==
    /\ answer.of = "pm_2fa_validate"
    /\ answer.body.access_key = Missing
    /\ pc = "confirm"
    /\ Get(auth, "pm_access_key") = "k2u"

\* C19: a data fetch is attempted only after save_auth was called, once, in
\* this run; during the whole fetch phase AUTH_FILE is a JSON object whose
\* members are the keys of the session get_valid_auth returned, with the
\* same values.
C19_PersistOnSuccess ==
    /\ attempts # <<>> => pc \in FetchPhase
    /\ pc \in FetchPhase
         => /\ saves = 1
            /\ auth.tag = "dict"
            /\ WellFormed(store)
            /\ \A k \in Fields : Persisted(store, k) = auth[k]

\* the probe-valid path: no exchange, the refreshed session is in the store
C19_Witness ==
    /\ pc = "done"
    /\ attempts # <<>>
    /\ ncalls["pm_login"] = 0
    /\ refreshed # Missing
    /\ store # store0
    /\ Persisted(store, "refresh_token") = refreshed

SignedInIds ==
    ({r.idToken : r \in SignInResponses} \cup {r.idToken : r \in MfaFinalizeResponses})
        \ {Missing}

\* the function is called in this step
Calls(name) == ncalls'[name] # ncalls[name]

\* the order of the authentication calls of a run
OrderedCalls ==
    /\ Calls("firebase_mfa_start")
         => /\ ncalls["firebase_sign_in"] = 1
            /\ answer.of = "firebase_sign_in"
            /\ CarriesPending(answer.body)
            /\ EnrollmentOf(answer.body) # <<>>
    /\ Calls("firebase_mfa_finalize")
         => /\ ncalls["firebase_mfa_start"] = 1
            /\ Truthy(chal.session)
            /\ last'[3] = chal.session
    /\ Calls("firebase_sign_in") => refreshed = Missing
    /\ Calls("pm_login")
         => \/ /\ refreshed # Missing
               /\ ncalls["firebase_sign_in"] = 0
               /\ auth.firebase_token \in RefreshedIds
            \/ /\ refreshed = Missing
               /\ ncalls["firebase_sign_in"] = 1
               /\ auth.firebase_token \in SignedInIds
    /\ Calls("pm_2fa_validate")
         => /\ ncalls["pm_2fa_send_code"] = 1
            /\ Truthy(chal.session)
            /\ last'[3] = chal.session

\* the refresh call was made and returned no token
RefreshRejected ==
    /\ ncalls["firebase_refresh_token"] = 1
    /\ refreshed = Missing
    /\ ~(pc = "crashed" /\ ncalls["firebase_sign_in"] = 0)

\* C21 as stated, for the refresh step: once the refresh is rejected no
\* other authentication call is made in the run.
C21_RejectedRefreshIsTerminal ==
    RefreshRejected
        => \A c \in CallNames \ {"firebase_refresh_token"} : ncalls[c] = 0

\* C21: the authentication calls of a run are made in order (start after a
\* sign-in that asked for a second factor, finalize after a start that
\* returned a session, pm_login with an identity token of the refresh or of
\* the sign-in, validate after a send-code that returned a token); once the
\* authentication has failed no call is made; a rejected refresh is the one
\* rejection that is followed by a call, the full sign-in.
C21_StepOrdering ==
    [][ /\ OrderedCalls
        /\ pc = "auth_failed" => ncalls' = ncalls
        /\ (RefreshRejected /\ ncalls["firebase_sign_in"] = 0 /\ ncalls' # ncalls)
             => Calls("firebase_sign_in")
      ]_vars

\* every authentication call was made once in the run: refresh rejected,
\* sign-in with second factor, backend login with backend code
C21_Witness ==
    /\ pc = "done"
    /\ RefreshRejected
    /\ ncalls["firebase_mfa_finalize"] = 1
    /\ ncalls["pm_2fa_validate"] = 1

\* C22: in a run each authentication function is called at most once and
\* test_api at most twice, the second time only after a probe of the cached
\* key that failed and an exchange that issued a key; no endpoint is
\* attempted twice by fetch_data.
C22_NoRetry ==
    /\ \A c \in CallNames \ {"test_api"} : ncalls[c] <= 1
    /\ ncalls["test_api"] <= 2
    /\ ncalls["test_api"] = 2
         => /\ Truthy(CachedKey)
            /\ CachedKey \notin probed
            /\ ncalls["pm_login"] = 1
            /\ issued # {}
    /\ \A i, j \in 1..Len(attempts) :
         attempts[i].endpoint = attempts[j].endpoint => i = j

\* two probes in the run, and a kind whose first candidates were skipped
C22_Witness ==
    /\ pc = "done"
    /\ ncalls["test_api"] = 2
    /\ ncalls["pm_2fa_validate"] = 1
    /\ Len(AttemptsOf("games")) = 5

\* C23: from the start of fetch_data to the end of the run no step changes
\* the session or AUTH_FILE, calls save_auth, an authentication function or
\* test_api, or leaves the fetch phase, whatever the fetches return.
C23_FetchLeavesSession ==
    [][ (pc \in FetchPhase)
          => (/\ auth' = auth
              /\ store' = store
              /\ saves' = saves
              /\ ncalls' = ncalls
              /\ pc' \in FetchPhase) ]_vars

\* every kind was requested and none was found
C23_Witness ==
    /\ pc = "done"
    /\ requested = ALL_TYPES
    /\ \A kind \in ALL_TYPES : data[kind] = NoPayload
    /\ Len(attempts) = 12
    /\ store = JsonFile(json_dumps(auth))

\* C24: in a run that called firebase_sign_in, the session with which the
\* backend exchange starts holds the new identity token, the new refresh
\* token and captured_at and nothing else; the cached key is never probed
\* and pm_login is sent an empty remember token.
C24_SignInRebuildsSession ==
    ncalls["firebase_sign_in"] = 1
        => /\ pc # "probe"
           /\ CachedKey \notin probed
           /\ ncalls["test_api"] > 0 => ncalls["pm_login"] = 1 /\ issued # {}
           /\ pc = "pm_login"
                => /\ auth.tag = "dict"
                   /\ auth.firebase_token \in SignedInIds
                   /\ Truthy(auth.refresh_token)
                   /\ auth.refresh_token # Persisted(store0, "refresh_token")
                   /\ auth.captured_at = Now
                   /\ auth.pm_access_key = Missing
                   /\ auth.verified2fa = Missing
           /\ (Len(last) > 0 /\ last[1] = "pm_login")
                => last[2] \in SignedInIds /\ last[3] = ""

\* the store held a key and a remember token, the refresh was rejected, the
\* second factor was passed, and the exchange was sent no remember token
C24_Witness ==
    /\ Truthy(CachedKey)
    /\ Persisted(store0, "verified2fa") = "v0"
    /\ RefreshRejected
    /\ ncalls["firebase_mfa_finalize"] = 1
    /\ last = <<"pm_login", "id3", "">>

\* the session's key was issued by the backend in this run and its
\* confirming probe did not accept it
UnconfirmedKey ==
    /\ ncalls["pm_login"] = 1
    /\ pc \in {"save", "save_write"} \cup FetchPhase
    /\ auth.pm_access_key \in issued
    /\ auth.pm_access_key \notin probed

\* C25: whatever the confirming probe of a newly issued key returns, the
\* next step is save_auth with the session unchanged; with a key whose
\* probe failed the session is saved once, AUTH_FILE holds that key, and
\* the fetch phase runs with it.
C25_UnconfirmedKeyAccepted ==
    /\ [][ (pc = "confirm")
             => (/\ pc' = "save"
                 /\ auth' = auth
                 /\ auth.pm_access_key \in issued) ]_vars
    /\ [](UnconfirmedKey
            => /\ pc = "save" => saves = 0
               /\ pc \in FetchPhase
                    => /\ saves = 1
                       /\ Persisted(store, "pm_access_key") = auth.pm_access_key)

\* the probe of the new key failed and the run fetched with it to the end
C25_Witness ==
    /\ UnconfirmedKey
    /\ pc = "done"
    /\ ncalls["test_api"] = 1
    /\ \E kind \in ALL_TYPES : data[kind] # NoPayload
    /\ Persisted(store, "pm_access_key") = auth.pm_access_key

\* the codes that are empty or made of white space
BlankCodes == {"", "  "}

\* C26: at either prompt a blank code ends the authentication as failed
\* with AUTH_FILE and the last call as they were; a run that failed after
\* the code was sent has made no finalize or validate call and no save, and
\* AUTH_FILE is what the run found.
C26_EmptyCodeAborts ==
    /\ pc = "mfa_code"
         => \A typed \in BlankCodes :
              LET r == _handle_firebase_mfa_code(Cur, typed)
              IN r.pc = "auth_failed" /\ r.store = store /\ r.last = last
    /\ pc = "pm_code"
         => \A typed \in BlankCodes :
              LET r == _pm_authenticate_code(Cur, typed)
              IN r.pc = "auth_failed" /\ r.store = store /\ r.last = last
    /\ (pc = "auth_failed" /\ Len(last) > 0 /\ last[1] = "firebase_mfa_start")
         => /\ ncalls["firebase_mfa_finalize"] = 0
            /\ saves = 0
            /\ store = store0
    /\ (pc = "auth_failed" /\ Len(last) > 0 /\ last[1] = "pm_2fa_send_code")
         => /\ ncalls["pm_2fa_validate"] = 0
            /\ saves = 0
            /\ store = store0

\* the backend sent its code, the operator typed nothing, the run failed
C26_Witness ==
    /\ pc = "auth_failed"
    /\ Len(last) > 0 /\ last[1] = "pm_2fa_send_code"
    /\ chal.session = "tfa"
    /\ WellFormed(store0)
    /\ store = store0

====
